---- MODULE Spec2Model ----
(***************************************************************************)
(* PlaygroundController (src/src/editors/playgroundController.ts): the     *)
(* coordinator that binds a playground run to the active connection,       *)
(* optionally confirms it, dispatches the code to the language server      *)
(* (the worker) and renders the result to the output channel.              *)
(*                                                                         *)
(* The controller runs on one event loop.  Every action below is one       *)
(* synchronous segment of a handler: from its entry, or from the           *)
(* resumption of an await, to the next await or to its end.                *)
(***************************************************************************)
EXTENDS Integers, Sequences, FiniteSets, TLC

\* ------------------------------------------------------------ bounds
\* Run triggers (invocations of evaluatePlayground) in one behaviour.
MaxRuns == 2
\* Connect/disconnect requests the worker has not answered yet.
MaxPending == 2
\* Ranges in one selection of the selection resolver's specification.
MaxSelections == 2

Runs == 1..MaxRuns

\* ------------------------------------------------------------ values
\* JavaScript's undefined, for the optional string fields.
Undefined == "undefined"

\* An optional value that is not a string: <<>> is undefined, <<v>> is v.
None == <<>>
Some(v) == <<v>>

\* The connections the connection controller can make active.
Conns == {"A", "B"}

\* getAttributes({ derived: true }).driverUrlWithSsh of a connection model.
DriverUrlWithSsh(c) == IF c = "A" THEN "mongodb://a" ELSE "mongodb://b"

\* What the worker can answer to executeAll: an array of output records
\* (each reduced to its content), possibly empty, or no result at all.
NoResult == None
Results == {Some(<<>>), Some(<<"2", "1">>)}

\* JavaScript truthiness of an ExecuteAllResult: an array is truthy, also
\* when it is empty; undefined is falsy.
Truthy(result) == result # NoResult

\* The answers of the modal confirmation prompt: the 'Yes' item, or
\* undefined when the prompt is dismissed.
Answers == {"Yes", Undefined}

\* ------------------------------------------------------------ documents
\* The text of the playground document, line by line, each line a
\* sequence of characters.  Line and character numbers count from 0.
Doc == << <<"a", "b">>, <<" ", "b">>, <<"c", " ">> >>

LineCount == Len(Doc)

\* document.lineAt(line).text
LineAt(line) == Doc[line + 1]

Positions ==
  UNION {{[line |-> l, character |-> c] : c \in 0..Len(LineAt(l))} :
           l \in 0..(LineCount - 1)}

PosLE(p, q) ==
  \/ p.line < q.line
  \/ p.line = q.line /\ p.character <= q.character

\* vscode.Range / vscode.Selection: start is never after end.
Ranges == {r \in [start : Positions, end : Positions] : PosLE(r.start, r.end)}

\* The lines strictly between two lines, each followed by its line break.
RECURSIVE LinesBetween(_, _)
LinesBetween(line, last) ==
  IF line >= last THEN <<>>
  ELSE LineAt(line) \o <<"\n">> \o LinesBetween(line + 1, last)

\* document.getText(range)
DocumentGetText(r) ==
  IF r.start.line = r.end.line
    THEN SubSeq(LineAt(r.start.line), r.start.character + 1, r.end.character)
    ELSE SubSeq(LineAt(r.start.line), r.start.character + 1,
                Len(LineAt(r.start.line)))
         \o <<"\n">>
         \o LinesBetween(r.start.line + 1, r.end.line)
         \o SubSeq(LineAt(r.end.line), 1, r.end.character)

\* document.getText()
DocumentGetAllText ==
  DocumentGetText([start |-> [line |-> 0, character |-> 0],
                   end |-> [line |-> LineCount - 1,
                            character |-> Len(LineAt(LineCount - 1))]])

\* String.prototype.trim
WhiteSpace == {" ", "\n"}

RECURSIVE TrimStart(_)
TrimStart(s) ==
  IF s # <<>> /\ Head(s) \in WhiteSpace THEN TrimStart(Tail(s)) ELSE s

RECURSIVE TrimEnd(_)
TrimEnd(s) ==
  IF s # <<>> /\ s[Len(s)] \in WhiteSpace
    THEN TrimEnd(SubSeq(s, 1, Len(s) - 1))
    ELSE s

Trim(s) == TrimEnd(TrimStart(s))

\* Array.prototype.join('\n')
RECURSIVE JoinNewline(_)
JoinNewline(texts) ==
  IF texts = <<>> THEN <<>>
  ELSE IF Len(texts) = 1 THEN texts[1]
  ELSE texts[1] \o <<"\n">> \o JoinNewline(Tail(texts))

\* The selections an editor can report: one or more ranges, no two of
\* them overlapping, in the order in which they were made.
Disjoint(r, s) == r # s /\ (PosLE(r.end, s.start) \/ PosLE(s.end, r.start))

IsSelectionSet(sels) ==
  /\ Len(sels) >= 1
  /\ \A i, j \in 1..Len(sels) : i # j => Disjoint(sels[i], sels[j])

\* All orders of the elements of a sequence.
Orders(seq) ==
  {p \in [1..Len(seq) -> {seq[i] : i \in 1..Len(seq)}] :
     \A i \in 1..Len(seq) : \E j \in 1..Len(seq) : p[j] = seq[i]}

\* The comparator handed to Array.prototype.sort: 1 when a starts on a
\* later line than b, and -1 otherwise (also when both start on the same
\* line: it never answers 0).
CompareStartLine(a, b) == IF a.start.line > b.start.line THEN 1 ELSE -1

\* A handler that joins the selections as reported, without sorting them.
UnsortedSelections(sels) == {sels}

\* The outcomes of selections.sort(comparator).  Where the comparator
\* orders two ranges consistently (different start lines) the earlier line
\* comes first; the order of two ranges starting on the same line depends
\* on the engine's sort algorithm, and every such order is an outcome.
SortSelections(sels) ==
  {p \in Orders(sels) :
     \A i, j \in 1..Len(p) :
       (i < j /\ p[i].start.line # p[j].start.line)
         => CompareStartLine(p[i], p[j]) < 0}

\* ------------------------------------------------------------ state
VARIABLES
  activeConnection,   \* connection controller: the active connection
  connectionString,   \* _connectionString
  connectionOptions,  \* _connectionOptions
  requests,           \* worker: connect/disconnect requests not yet answered
  workerConnection,   \* worker: the connection string it is bound to
  listeners,          \* connection controller: the listeners registered for
                      \* ACTIVE_CONNECTION_CHANGED, in registration order
  deactivated,        \* deactivate() has been called
  confirmRunAll,      \* configuration: mdb.confirmRunAll
  activeTextEditor,   \* _activeTextEditor, by the language of its document
  selections,         \* the playground editor's selections, as last made
  selectedText,       \* _selectedText
  codeLens,           \* the partial-execution code lens: its range, if shown
  codeToEvaluate,     \* _codeToEvaluate
  isPartialRun,       \* _isPartialRun
  command,            \* the run command invoked last
  run,                \* every invocation of a run command, by number
  outputChannel       \* the lines of the 'Playground output' channel

connVars == <<activeConnection, connectionString, connectionOptions,
              requests, workerConnection, listeners, deactivated>>
editorVars == <<activeTextEditor, selections, selectedText, codeLens>>
runVars == <<codeToEvaluate, isPartialRun, command, run, outputChannel>>
vars == <<connVars, confirmRunAll, editorVars, runVars>>

\* ------------------------------------------------------------ editor
Rng(sl, sc, el, ec) ==
  [start |-> [line |-> sl, character |-> sc],
   end |-> [line |-> el, character |-> ec]]

\* The selections the playground editor takes while runs are going on: a
\* lone cursor, the first line selected, two selections made bottom line
\* first, and two cursors.
RunSelections ==
  { <<Rng(0, 0, 0, 0)>>,
    <<Rng(0, 0, 0, 2)>>,
    <<Rng(2, 0, 2, 1), Rng(0, 0, 0, 1)>>,
    <<Rng(1, 0, 1, 0), Rng(0, 0, 0, 0)>> }

\* The editors that can become active, by the languageId of their
\* document; Undefined when no editor is active.
Editors == {Undefined, "mongodb", "plaintext", "Log"}

\* getAllText
GetAllText(editor) ==
  IF editor = "mongodb" THEN DocumentGetAllText ELSE <<>>

\* getSelectedText
GetSelectedText(editor, selection) ==
  IF editor = "mongodb" THEN DocumentGetText(selection) ELSE <<>>

\* onEditorChange: every editor but an output ('Log') one becomes
\* _activeTextEditor.
OnEditorChange(editor) ==
  /\ activeTextEditor' = IF editor # "Log" THEN editor ELSE activeTextEditor
  /\ activeTextEditor' # activeTextEditor
  /\ UNCHANGED <<connVars, confirmRunAll, selections, selectedText, codeLens,
                 runVars>>

\* A showCodeLensForSelection that puts the code lens on the line of the
\* range it was called for.
CodeLensAtItem(editor, item, sorted) ==
  LET text == Trim(GetSelectedText(editor, item))
      lastSelectedLine ==
        IF editor = "mongodb" THEN Trim(LineAt(item.end.line)) ELSE <<>>
  IN  IF Len(text) > 0 /\ Len(text) >= Len(lastSelectedLine)
        THEN Some(Rng(item.start.line, 0, item.start.line, 0))
        ELSE None

\* showCodeLensForSelection(item): the range the code lens is put at,
\* None for a refresh() that clears it.
ShowCodeLensForSelection(editor, item, sorted) ==
  LET text == Trim(GetSelectedText(editor, item))
      lastSelectedLine ==
        IF editor = "mongodb" THEN Trim(LineAt(item.end.line)) ELSE <<>>
      firstLine == sorted[1].start.line
  IN  IF Len(text) > 0 /\ Len(text) >= Len(lastSelectedLine)
        THEN Some(Rng(firstLine, 0, firstLine, 0))
        ELSE None

\* The text the selection handler stores for the sorted selections.
ResolveSelectedText(editor, sorted) ==
  JoinNewline([i \in 1..Len(sorted) |-> GetSelectedText(editor, sorted[i])])

\* The onDidChangeTextEditorSelection handler, for a change of the
\* selections of the playground editor (which is the active editor: a
\* selection is made in the editor that has the focus).
OnDidChangeTextEditorSelection(sels) ==
  /\ activeTextEditor = "mongodb"
  /\ \E sorted \in SortSelections(sels) :
       /\ selections' = sels
       /\ selectedText' = Some(ResolveSelectedText(activeTextEditor, sorted))
       /\ codeLens' = ShowCodeLensForSelection(activeTextEditor,
                                               sorted[Len(sorted)], sorted)
  /\ UNCHANGED <<connVars, confirmRunAll, activeTextEditor, runVars>>

\* ------------------------------------------------------------ configuration
\* The user edits the mdb.confirmRunAll setting.
ConfigurationChanged(value) ==
  /\ value # confirmRunAll
  /\ confirmRunAll' = value
  /\ UNCHANGED <<connVars, editorVars, runVars>>

\* ------------------------------------------------------------ binding
\* driverOptions of a connection model: connection A has some, B none.
DriverOptions(c) == IF c = "A" THEN "{ssl}" ELSE Undefined

\* getActiveConnectionName
GetActiveConnectionName(c) == IF c = Undefined THEN "" ELSE c

\* this._context.extensionPath
ExtensionPath == "extensionPath"

DisconnectRequest == [op |-> "disconnect", connectionString |-> Undefined,
                      connectionOptions |-> Undefined,
                      extensionPath |-> Undefined]

ConnectRequest(url, options) ==
  [op |-> "connect", connectionString |-> url, connectionOptions |-> options,
   extensionPath |-> ExtensionPath]

\* disconnectFromServiceProvider: the request it sends to the worker.
DisconnectFromServiceProvider == DisconnectRequest

\* A connectToServiceProvider that hands on the driver options as they
\* are, without the empty bag for a connection that has none.
ConnectWithoutDefaultOptions(c) ==
  IF c # Undefined /\ DriverUrlWithSsh(c) # Undefined
    THEN [connectionString |-> DriverUrlWithSsh(c),
          connectionOptions |-> DriverOptions(c),
          request |-> ConnectRequest(DriverUrlWithSsh(c), DriverOptions(c))]
    ELSE [connectionString |-> Undefined,
          connectionOptions |-> Undefined,
          request |-> DisconnectRequest]

\* connectToServiceProvider, for the active connection c: the fields it
\* stores and the request it sends to the worker.
ConnectToServiceProvider(c) ==
  IF c # Undefined /\ DriverUrlWithSsh(c) # Undefined
    THEN LET options == IF DriverOptions(c) # Undefined
                          THEN DriverOptions(c) ELSE "{}"
         IN  [connectionString |-> DriverUrlWithSsh(c),
              connectionOptions |-> options,
              request |-> ConnectRequest(DriverUrlWithSsh(c), options)]
    ELSE [connectionString |-> Undefined,
          connectionOptions |-> Undefined,
          request |-> DisconnectRequest]

\* The two listeners the constructor registers for
\* ACTIVE_CONNECTION_CHANGED, and the function deactivate creates.
DisconnectListener == "disconnectListener"
ConnectListener == "connectListener"
NoActionListener == "noActionListener"

ConstructorListeners == <<DisconnectListener, ConnectListener>>

Registered(listener) ==
  \E i \in 1..Len(listeners) : listeners[i] = listener

\* removeEventListener(type, listener): the registered listeners without
\* the one handed in; a function that was never registered removes none.
RECURSIVE RemoveEventListener(_, _)
RemoveEventListener(registered, listener) ==
  IF registered = <<>> THEN <<>>
  ELSE IF Head(registered) = listener THEN Tail(registered)
  ELSE <<Head(registered)>> \o RemoveEventListener(Tail(registered), listener)

\* The connection controller makes c the active connection (Undefined:
\* none) and emits ACTIVE_CONNECTION_CHANGED.  The emitter calls the
\* registered listeners one after the other, the disconnecting one first;
\* each runs up to its await, that is, until its request has been sent to
\* the worker.
ActiveConnectionChanged(c) ==
  /\ Len(requests) + 2 <= MaxPending
  /\ activeConnection' = c
  /\ LET connect == ConnectToServiceProvider(c)
         disconnecting ==
           IF Registered(DisconnectListener)
             THEN <<DisconnectFromServiceProvider>> ELSE <<>>
         connecting ==
           IF Registered(ConnectListener) THEN <<connect.request>> ELSE <<>>
     IN  /\ connectionString' =
              IF Registered(ConnectListener)
                THEN connect.connectionString ELSE connectionString
         /\ connectionOptions' =
              IF Registered(ConnectListener)
                THEN connect.connectionOptions ELSE connectionOptions
         /\ requests' = requests \o disconnecting \o connecting
  /\ UNCHANGED <<workerConnection, listeners, deactivated, confirmRunAll,
                 editorVars, runVars>>

\* deactivate: it hands removeEventListener a function it has just
\* created.
Deactivate ==
  /\ ~deactivated
  /\ deactivated' = TRUE
  /\ listeners' = RemoveEventListener(listeners, NoActionListener)
  /\ UNCHANGED <<activeConnection, connectionString, connectionOptions,
                 requests, workerConnection, confirmRunAll, editorVars,
                 runVars>>

\* The worker answers its oldest connect or disconnect request; a connect
\* succeeds or fails.  The listeners drop the answer.
WorkerAnswersRequest(ok) ==
  /\ requests # <<>>
  /\ LET request == Head(requests)
     IN  workerConnection' =
           IF request.op = "disconnect" THEN Undefined
           ELSE IF ok THEN request.connectionString
           ELSE workerConnection
  /\ (Head(requests).op = "disconnect" => ok)
  /\ requests' = Tail(requests)
  /\ UNCHANGED <<activeConnection, connectionString, connectionOptions,
                 listeners, deactivated, confirmRunAll, editorVars, runVars>>

\* ------------------------------------------------------------ runs
\* The record of one invocation of a run command.
\*   pc         where evaluatePlayground stands: "unused" (not invoked),
\*              "confirm" (awaiting the prompt), "running" (awaiting
\*              evaluateWithCancelModal), "hung" (its executor threw: the
\*              promise never settles), "done" (settled)
\*   ret        what the command's promise resolved to
\*   exec       the executeAll request: "none", "sent", "returned",
\*              "rejected"
\*   text, partial   the run request: _codeToEvaluate and _isPartialRun as
\*              the command left them
\*   bound      whether a connection string was stored when
\*              evaluatePlayground was entered
\*   shouldConfirm   the confirmRunAll setting it read
\*   code       the code handed to executeAll
\* and what the run has done so far: the messages it showed, the
\* telemetry records it sent, its calls of cancelAll and of the output
\* channel's clear and appendLine.
NoRun ==
  [pc |-> "unused", evaluated |-> FALSE, text |-> <<>>, partial |-> FALSE,
   bound |-> FALSE, shouldConfirm |-> FALSE, prompt |-> "none",
   promptName |-> "", exec |-> "none", code |-> <<>>,
   result |-> NoResult, cancelled |-> FALSE, cancelAlls |-> 0,
   ret |-> "none", telemetry |-> <<>>, clears |-> 0, appends |-> 0,
   messages |-> {}]

\* A controller that never finds the connection string missing.
AlwaysConnectionString(cs) == FALSE

\* !this._connectionString
NoConnectionString(cs) == cs = Undefined

\* The number of the next invocation.
NextRun == CHOOSE r \in Runs : run[r].pc = "unused" /\
                               \A q \in Runs : q < r => run[q].pc # "unused"

CanInvoke == \E r \in Runs : run[r].pc = "unused"

\* An evaluateWithCancelModal that dispatches without looking at the
\* connection string.
DispatchUnchecked(rec, cs, code) ==
  [rec EXCEPT !.pc = "running", !.exec = "sent", !.code = code]

\* evaluateWithCancelModal up to its await of executeAll: it rejects when
\* no connection string is stored, and the await of it in the executor of
\* evaluatePlayground then throws, so that the promise never settles;
\* otherwise the progress task starts and evaluate(this._codeToEvaluate)
\* sends the code to the worker.
EvaluateWithCancelModal(rec, cs, code) ==
  IF NoConnectionString(cs)
    THEN [rec EXCEPT !.pc = "hung"]
    ELSE [rec EXCEPT !.pc = "running", !.exec = "sent", !.code = code]

\* An evaluatePlayground that never asks for confirmation.
NeverConfirm(flag) == FALSE

\* shouldConfirmRunAll === true
ShouldConfirm(flag) == flag = TRUE

\* evaluatePlayground up to its first await, for the run request the
\* command has just stored in _codeToEvaluate and _isPartialRun.
EvaluatePlayground(code, partial) ==
  LET entered == [NoRun EXCEPT !.evaluated = TRUE, !.text = code,
                               !.partial = partial,
                               !.bound = connectionString # Undefined,
                               !.shouldConfirm = confirmRunAll]
  IN  IF NoConnectionString(connectionString)
        THEN [entered EXCEPT !.messages = @ \cup {"connect"},
                             !.ret = "false", !.pc = "done"]
      ELSE IF ShouldConfirm(confirmRunAll)
        THEN [entered EXCEPT
                !.prompt = "open",
                !.promptName = GetActiveConnectionName(activeConnection),
                !.pc = "confirm"]
      ELSE EvaluateWithCancelModal(entered, connectionString, code)

\* An evaluatePlayground that appends a result without clearing first.
RenderWithoutClear(result, out) ==
  IF ~Truthy(result) THEN <<>> ELSE out \o result[1]

\* An evaluatePlayground that leaves the output as it is when there is
\* no result.
RenderKeepsOutput(result, out) ==
  IF ~Truthy(result) THEN out ELSE <<>> \o result[1]

\* The output channel after evaluatePlayground has handled a result.
RenderOutput(result, out) ==
  IF ~Truthy(result) THEN <<>> ELSE <<>> \o result[1]

\* evaluatePlayground from the result of evaluateWithCancelModal on.
HandleResult(rec, result) ==
  IF ~Truthy(result)
    THEN [rec EXCEPT !.clears = @ + 1, !.ret = "false", !.pc = "done"]
    ELSE [rec EXCEPT !.clears = @ + 1, !.appends = @ + Len(result[1]),
                     !.ret = "true", !.pc = "done"]

\* A telemetry call that takes an empty result for an error.
IsErrorWhenEmpty(result) == ~Truthy(result) \/ result[1] = <<>>

\* result ? false : true
IsError(result) == ~Truthy(result)

\* The record trackPlaygroundCodeExecuted is called with in evaluate.
TelemetryRecord(result, partial) ==
  [result |-> result, isPartial |-> partial, isError |-> IsError(result)]

\* The guard of the run commands: a playground must be the active editor.
NoPlaygroundOpen == activeTextEditor # "mongodb"

OpenPlaygroundFirst ==
  [NoRun EXCEPT !.messages = {"open"}, !.ret = "false", !.pc = "done"]

\* The commands' 'Please select one or more lines' answer.
SelectLinesFirst ==
  [NoRun EXCEPT !.messages = {"select"}, !.ret = "true", !.pc = "done"]

\* Commands that never take the selection for empty.
AlwaysSomethingSelected == FALSE

\* selections.length === 1 && this.getSelectedText(selections[0]) === ''
NothingSelected ==
  Len(selections) = 1 /\ GetSelectedText(activeTextEditor, selections[1]) = <<>>

\* this._selectedText as a condition: neither undefined nor ''.
HasSelectedText == selectedText # None /\ selectedText[1] # <<>>

\* runAllPlaygroundBlocks
RunAllPlaygroundBlocks ==
  /\ CanInvoke
  /\ command' = "runAll"
  /\ IF NoPlaygroundOpen
       THEN /\ run' = [run EXCEPT ![NextRun] = OpenPlaygroundFirst]
            /\ UNCHANGED <<isPartialRun, codeToEvaluate>>
       ELSE /\ isPartialRun' = FALSE
            /\ codeToEvaluate' = GetAllText(activeTextEditor)
            /\ run' = [run EXCEPT ![NextRun] =
                 EvaluatePlayground(codeToEvaluate', isPartialRun')]
  /\ UNCHANGED <<connVars, confirmRunAll, editorVars, outputChannel>>

\* runSelectedPlaygroundBlocks
RunSelectedPlaygroundBlocks ==
  /\ CanInvoke
  /\ command' = "runSelected"
  /\ IF NoPlaygroundOpen
       THEN /\ run' = [run EXCEPT ![NextRun] = OpenPlaygroundFirst]
            /\ UNCHANGED <<isPartialRun, codeToEvaluate>>
     ELSE IF NothingSelected
       THEN /\ run' = [run EXCEPT ![NextRun] = SelectLinesFirst]
            /\ UNCHANGED <<isPartialRun, codeToEvaluate>>
       ELSE /\ isPartialRun' = IF HasSelectedText THEN TRUE ELSE isPartialRun
            /\ codeToEvaluate' =
                 IF HasSelectedText THEN selectedText[1] ELSE codeToEvaluate
            /\ run' = [run EXCEPT ![NextRun] =
                 EvaluatePlayground(codeToEvaluate', isPartialRun')]
  /\ UNCHANGED <<connVars, confirmRunAll, editorVars, outputChannel>>

\* runAllOrSelectedPlaygroundBlocks
RunAllOrSelectedPlaygroundBlocks ==
  /\ CanInvoke
  /\ command' = "runAllOrSelected"
  /\ IF NoPlaygroundOpen
       THEN /\ run' = [run EXCEPT ![NextRun] = OpenPlaygroundFirst]
            /\ UNCHANGED <<isPartialRun, codeToEvaluate>>
       ELSE /\ isPartialRun' = IF NothingSelected THEN FALSE
                               ELSE IF HasSelectedText THEN TRUE
                               ELSE isPartialRun
            /\ codeToEvaluate' =
                 IF NothingSelected THEN GetAllText(activeTextEditor)
                 ELSE IF HasSelectedText THEN selectedText[1]
                 ELSE codeToEvaluate
            /\ run' = [run EXCEPT ![NextRun] =
                 EvaluatePlayground(codeToEvaluate', isPartialRun')]
  /\ UNCHANGED <<connVars, confirmRunAll, editorVars, outputChannel>>

\* An evaluatePlayground that goes on whatever the answer.
NeverDeclined(answer) == FALSE

\* confirmRunAll !== 'Yes'
Declined(answer) == answer # "Yes"

\* The user answers the confirmation prompt of run r, and
\* evaluatePlayground goes on from its await.
ConfirmationAnswered(r, answer) ==
  /\ run[r].pc = "confirm"
  /\ run' = [run EXCEPT ![r] =
       IF Declined(answer)
         THEN [run[r] EXCEPT !.prompt = answer, !.ret = "false",
                             !.pc = "done"]
         ELSE EvaluateWithCancelModal([run[r] EXCEPT !.prompt = answer],
                                      connectionString, codeToEvaluate)]
  /\ UNCHANGED <<connVars, confirmRunAll, editorVars, codeToEvaluate,
                 isPartialRun, command, outputChannel>>

\* A callback that cancels and clears but leaves the promise pending
\* until the worker answers.
CancelWithoutResolve(rec) ==
  [rec EXCEPT !.cancelled = TRUE, !.cancelAlls = @ + 1, !.clears = @ + 1]

\* The onCancellationRequested callback: cancelAll, clear, and the
\* promise of evaluateWithCancelModal resolved with undefined, on which
\* evaluatePlayground goes on from its await.
OnCancellationRequested(rec) ==
  HandleResult([rec EXCEPT !.cancelled = TRUE, !.cancelAlls = @ + 1,
                           !.clears = @ + 1],
               NoResult)

\* The user cancels on the progress notification of run r, which is
\* shown until the progress task ends.
CancellationRequested(r) ==
  /\ run[r].pc = "running"
  /\ run[r].exec = "sent"
  /\ run' = [run EXCEPT ![r] = OnCancellationRequested(run[r])]
  /\ outputChannel' = RenderOutput(NoResult, <<>>)
  /\ UNCHANGED <<connVars, confirmRunAll, editorVars, codeToEvaluate,
                 isPartialRun, command>>

\* A promise that takes every resolve, also after it was resolved.
NeverResolved(rec) == FALSE

\* The promise of evaluateWithCancelModal has been resolved already, by
\* the cancellation callback: a later resolve of it does nothing.
AlreadyResolved(rec) == rec.cancelled

\* A progress task whose rejection nothing handles: the promise of
\* evaluateWithCancelModal stays pending.
RejectionUnhandled(rec) == [rec EXCEPT !.exec = "rejected", !.pc = "hung"]

\* executeAll rejects: the await in evaluate throws before the telemetry
\* call, the progress task rejects with it, and the rejection handler
\* resolves the promise of evaluateWithCancelModal with undefined, on
\* which evaluatePlayground goes on from its await.
OnExecuteAllRejected(rec) ==
  HandleResult([rec EXCEPT !.exec = "rejected"], NoResult)

\* The worker answers the executeAll request of run r: evaluate goes on,
\* then the progress task, whose resolve does nothing once the run was
\* cancelled, and then evaluatePlayground.
ExecuteAllReturned(r, result) ==
  /\ run[r].exec = "sent"
  /\ LET answered ==
           [run[r] EXCEPT !.exec = "returned", !.result = result,
                          !.telemetry =
                            Append(@, TelemetryRecord(result, isPartialRun))]
     IN  IF AlreadyResolved(run[r])
           THEN /\ run' = [run EXCEPT ![r] = answered]
                /\ UNCHANGED outputChannel
           ELSE /\ run' = [run EXCEPT ![r] = HandleResult(answered, result)]
                /\ outputChannel' = RenderOutput(result, outputChannel)
  /\ UNCHANGED <<connVars, confirmRunAll, editorVars, codeToEvaluate,
                 isPartialRun, command>>

\* The executeAll request of run r fails: evaluate throws, the progress
\* task rejects, and the rejection handler resolves with undefined.
ExecuteAllRejected(r) ==
  /\ run[r].exec = "sent"
  /\ IF AlreadyResolved(run[r])
       THEN /\ run' = [run EXCEPT ![r] = [run[r] EXCEPT !.exec = "rejected"]]
            /\ UNCHANGED outputChannel
       ELSE /\ run' = [run EXCEPT ![r] = OnExecuteAllRejected(run[r])]
            /\ outputChannel' = RenderOutput(NoResult, outputChannel)
  /\ UNCHANGED <<connVars, confirmRunAll, editorVars, codeToEvaluate,
                 isPartialRun, command>>

\* ------------------------------------------------------------ specification
\* The controller as its constructor leaves it, in an editor window whose
\* active editor and selections are whatever they were at activation.
Constructed ==
  /\ activeConnection = Undefined
  /\ connectionString = Undefined
  /\ connectionOptions = Undefined
  /\ requests = <<>>
  /\ workerConnection = Undefined
  /\ listeners = ConstructorListeners
  /\ deactivated = FALSE
  /\ confirmRunAll \in BOOLEAN
  /\ selectedText = None
  /\ codeLens = None
  /\ codeToEvaluate = <<>>
  /\ isPartialRun = FALSE
  /\ command = "none"
  /\ run = [r \in Runs |-> NoRun]
  /\ outputChannel = <<>>

\* The selection handler has resolved the editor's selections.
SelectionResolved ==
  \E sorted \in SortSelections(selections) :
    /\ selectedText = Some(ResolveSelectedText(activeTextEditor, sorted))
    /\ codeLens = ShowCodeLensForSelection(activeTextEditor,
                                           sorted[Len(sorted)], sorted)

\* The coordinator: the run commands, the confirmation prompt, the
\* progress notification, the worker's answers and the connection
\* changes, with the playground open in the active editor and its first
\* line selected.
Init ==
  /\ activeConnection = Undefined
  /\ connectionString = Undefined
  /\ connectionOptions = Undefined
  /\ requests = <<>>
  /\ workerConnection = Undefined
  /\ listeners = ConstructorListeners
  /\ deactivated = FALSE
  /\ confirmRunAll \in BOOLEAN
  /\ activeTextEditor = "mongodb"
  /\ selections = <<Rng(0, 0, 0, 2)>>
  /\ SelectionResolved
  /\ codeToEvaluate = <<>>
  /\ isPartialRun = FALSE
  /\ command = "none"
  /\ run = [r \in Runs |-> NoRun]
  /\ outputChannel = <<>>

Next ==
  \/ \E c \in Conns \cup {Undefined} : ActiveConnectionChanged(c)
  \/ \E ok \in BOOLEAN : WorkerAnswersRequest(ok)
  \/ \E value \in BOOLEAN : ConfigurationChanged(value)
  \/ RunAllPlaygroundBlocks
  \/ RunSelectedPlaygroundBlocks
  \/ RunAllOrSelectedPlaygroundBlocks
  \/ \E r \in Runs, answer \in Answers : ConfirmationAnswered(r, answer)
  \/ \E r \in Runs : CancellationRequested(r)
  \/ \E r \in Runs, result \in Results \cup {NoResult} :
       ExecuteAllReturned(r, result)
  \/ \E r \in Runs : ExecuteAllRejected(r)

Spec == Init /\ [][Next]_vars

\* The selection resolver: the editor and selection handlers alone.  The
\* user has made any selection of up to MaxSelections ranges, in any
\* order, and the editor reports it.
SelectionSets ==
  {sels \in UNION {[1..n -> Ranges] : n \in 1..MaxSelections} :
     IsSelectionSet(sels)}

SelInit ==
  /\ Constructed
  /\ confirmRunAll = FALSE
  /\ activeTextEditor \in Editors \ {"Log"}
  /\ selections \in SelectionSets

SelNext ==
  \/ \E editor \in Editors : OnEditorChange(editor)
  \/ OnDidChangeTextEditorSelection(selections)

SelSpec == SelInit /\ [][SelNext]_vars

\* The commands over the selections: connection A is bound and the
\* worker connected to it, the playground is open with one of the
\* selections above, and no selection change has been reported since the
\* controller was constructed.  The user changes the selection and the
\* active editor and invokes the run commands.
CmdInit ==
  /\ activeConnection = "A"
  /\ connectionString = ConnectToServiceProvider("A").connectionString
  /\ connectionOptions = ConnectToServiceProvider("A").connectionOptions
  /\ requests = <<>>
  /\ workerConnection = connectionString
  /\ listeners = ConstructorListeners
  /\ deactivated = FALSE
  /\ confirmRunAll \in BOOLEAN
  /\ activeTextEditor = "mongodb"
  /\ selections \in RunSelections
  /\ selectedText = None
  /\ codeLens = None
  /\ codeToEvaluate = <<>>
  /\ isPartialRun = FALSE
  /\ command = "none"
  /\ run = [r \in Runs |-> NoRun]
  /\ outputChannel = <<>>

CmdNext ==
  \/ \E editor \in Editors : OnEditorChange(editor)
  \/ \E sels \in RunSelections : OnDidChangeTextEditorSelection(sels)
  \/ \E value \in BOOLEAN : ConfigurationChanged(value)
  \/ RunAllPlaygroundBlocks
  \/ RunSelectedPlaygroundBlocks
  \/ RunAllOrSelectedPlaygroundBlocks
  \/ \E r \in Runs, answer \in Answers : ConfirmationAnswered(r, answer)
  \/ \E r \in Runs : CancellationRequested(r)
  \/ \E r \in Runs, result \in Results \cup {NoResult} :
       ExecuteAllReturned(r, result)
  \/ \E r \in Runs : ExecuteAllRejected(r)

CmdSpec == CmdInit /\ [][CmdNext]_vars

\* The controller's teardown: the connection changes and the worker's
\* answers to them, before and after deactivate, with runs of the whole
\* document to show which connection they meet.
TeardownNext ==
  \/ Deactivate
  \/ \E c \in Conns \cup {Undefined} : ActiveConnectionChanged(c)
  \/ \E ok \in BOOLEAN : WorkerAnswersRequest(ok)
  \/ \E value \in BOOLEAN : ConfigurationChanged(value)
  \/ RunAllPlaygroundBlocks
  \/ \E r \in Runs, answer \in Answers : ConfirmationAnswered(r, answer)
  \/ \E r \in Runs, result \in Results \cup {NoResult} :
       ExecuteAllReturned(r, result)

TeardownSpec == Init /\ [][TeardownNext]_vars

\* ------------------------------------------------------------ properties
InFlight(r) == run[r].exec = "sent" /\ ~run[r].cancelled

\* C1: at most one run is in flight at a time (its executeAll sent, not
\* yet answered and not cancelled): a run command invoked while another
\* run is in flight sends no second executeAll.
C1_SingleFlight == Cardinality({r \in Runs : InFlight(r)}) <= 1

\* C2: a run whose evaluatePlayground found no connection string stored
\* has resolved false with the 'Please connect' error message, and has
\* neither called the worker (executeAll, cancelAll), nor cleared or
\* appended to the output channel, nor sent a telemetry record.
C2_NoConnection ==
  \A r \in Runs :
    (run[r].evaluated /\ ~run[r].bound) =>
      /\ run[r].pc = "done"
      /\ run[r].ret = "false"
      /\ run[r].messages = {"connect"}
      /\ run[r].exec = "none"
      /\ run[r].cancelAlls = 0
      /\ run[r].clears = 0
      /\ run[r].appends = 0
      /\ run[r].telemetry = <<>>

\* A run found no connection while an earlier run's output was showing.
C2_Witness ==
  /\ run[1].ret = "true" /\ run[1].exec = "returned"
  /\ run[2].evaluated /\ ~run[2].bound /\ run[2].ret = "false"
  /\ outputChannel # <<>>

\* C3: the step in which the user cancels a run whose executeAll is
\* outstanding calls cancelAll, leaves the output channel empty and
\* settles the run with false (evaluateWithCancelModal having resolved
\* with no result), while the executeAll request is still unanswered.
C3_Cancel ==
  [][\A r \in Runs :
       (~run[r].cancelled /\ run'[r].cancelled) =>
         /\ run[r].exec = "sent" /\ run'[r].exec = "sent"
         /\ run'[r].cancelAlls = run[r].cancelAlls + 1
         /\ run'[r].clears > run[r].clears
         /\ outputChannel' = <<>>
         /\ run'[r].pc = "done"
         /\ run'[r].ret = "false"]_vars

\* A run was cancelled over an earlier run's output, and the worker has
\* not answered it.
C3_Witness ==
  /\ run[1].ret = "true" /\ run[1].result = Some(<<"2", "1">>)
  /\ run[2].cancelled /\ run[2].exec = "sent" /\ run[2].ret = "false"
  /\ outputChannel = <<>>

\* C4: a run whose confirmation prompt was answered with anything but
\* 'Yes' has resolved false, has sent no executeAll and no telemetry
\* record, and has neither cleared nor appended to the output channel.
C4_Declined ==
  \A r \in Runs :
    (run[r].shouldConfirm /\ run[r].prompt \notin {"none", "open", "Yes"}) =>
      /\ run[r].pc = "done"
      /\ run[r].ret = "false"
      /\ run[r].exec = "none"
      /\ run[r].telemetry = <<>>
      /\ run[r].clears = 0
      /\ run[r].appends = 0
      /\ run[r].messages = {}

\* A prompt was dismissed while an earlier run's output was showing.
C4_Witness ==
  /\ run[1].ret = "true" /\ run[1].exec = "returned"
  /\ run[2].prompt = Undefined /\ run[2].ret = "false"
  /\ outputChannel # <<>>

\* C5: a connect request and a disconnect request are never outstanding
\* at the worker at the same time.
C5_DisconnectThenConnect ==
  ~ \E i, j \in 1..Len(requests) :
      requests[i].op = "disconnect" /\ requests[j].op = "connect"

\* C6: a run that read confirmRunAll as true has sent executeAll only
\* after its prompt was answered 'Yes'; a run that read it as not true
\* was shown no prompt and, with a connection stored, went straight to
\* sending executeAll.
C6_ConfirmBeforeDispatch ==
  \A r \in Runs :
    run[r].evaluated =>
      /\ (run[r].shouldConfirm = TRUE /\ run[r].exec # "none")
           => run[r].prompt = "Yes"
      /\ (run[r].shouldConfirm # TRUE)
           => /\ run[r].prompt = "none"
              /\ run[r].bound => run[r].exec # "none"

\* One run was dispatched after a 'Yes', another without any prompt.
C6_Witness ==
  /\ run[1].shouldConfirm /\ run[1].prompt = "Yes" /\ run[1].exec = "sent"
  /\ ~run[2].shouldConfirm /\ run[2].prompt = "none" /\ run[2].exec = "sent"

\* C7: the step in which the worker answers a run that was not cancelled
\* with a result settles the run with true and leaves in the output
\* channel exactly the contents of the result's records, in their order.
C7_Render ==
  [][\A r \in Runs :
       (/\ run[r].exec = "sent" /\ ~run[r].cancelled
        /\ run'[r].exec = "returned" /\ Truthy(run'[r].result)) =>
         /\ run'[r].pc = "done"
         /\ run'[r].ret = "true"
         /\ outputChannel' = run'[r].result[1]]_vars

\* Both runs rendered a result, the one with no records last, over the
\* two lines of the other.
C7_Witness ==
  /\ run[1].ret = "true" /\ run[1].result = Some(<<"2", "1">>)
  /\ run[2].ret = "true" /\ run[2].result = Some(<<>>)
  /\ outputChannel = <<>>

\* C8: the step in which a run ends with no result, because the worker
\* answered with none or because the user cancelled, leaves the output
\* channel empty and settles the run with false.
C8_NoResultEmpties ==
  [][\A r \in Runs :
       (/\ run[r].pc = "running"
        /\ run'[r].pc = "done"
        /\ \/ run'[r].cancelled
           \/ run'[r].exec = "returned" /\ ~Truthy(run'[r].result)) =>
         /\ outputChannel' = <<>>
         /\ run'[r].ret = "false"]_vars

\* The worker answered a run with no result after another run had
\* rendered its lines, and the output is empty.
C8_Witness ==
  /\ run[1].ret = "true" /\ run[1].result = Some(<<"2", "1">>)
  /\ run[2].exec = "returned" /\ run[2].result = NoResult
  /\ ~run[2].cancelled /\ run[2].ret = "false"
  /\ outputChannel = <<>>

\* Ascending by start line.
AscendingStartLines(order) ==
  \A i, j \in 1..Len(order) : i < j => order[i].start.line <= order[j].start.line

\* C9: once the selection handler has run, _selectedText is the texts of
\* the selected ranges joined by a newline in an order ascending by start
\* line, whatever the order in which the ranges were made.
C9_SelectedText ==
  selectedText # None =>
    \E order \in Orders(selections) :
      /\ AscendingStartLines(order)
      /\ selectedText =
           Some(JoinNewline([i \in 1..Len(order) |->
                               DocumentGetText(order[i])]))

\* The handler has resolved two ranges that were made bottom line first.
C9_Witness ==
  /\ selectedText # None
  /\ Len(selections) = 2
  /\ selections[1].start.line > selections[2].start.line
  /\ DocumentGetText(selections[1]) # DocumentGetText(selections[2])

\* C10: a run whose executeAll the worker has answered has sent exactly
\* one telemetry record, with the worker's result and with isError true
\* iff there is no result (a result without records is no error), and has
\* shown no message; a run whose executeAll is not answered has sent none.
C10_Telemetry ==
  \A r \in Runs :
    /\ run[r].exec = "returned" =>
         /\ Len(run[r].telemetry) = 1
         /\ run[r].telemetry[1].result = run[r].result
         /\ run[r].telemetry[1].isError = (run[r].result = NoResult)
         /\ run[r].messages = {}
    /\ run[r].exec \in {"none", "sent"} => run[r].telemetry = <<>>

\* The worker answered one run with a result without records and the
\* other with no result.
C10_Witness ==
  /\ run[1].exec = "returned" /\ run[1].result = Some(<<>>)
  /\ run[2].exec = "returned" /\ run[2].result = NoResult
  /\ ~run[2].cancelled

\* C11: every telemetry record of a run carries as isPartial the flag of
\* that run's request: true for a run triggered on a selection, false for
\* a run of the whole document, whatever was triggered in between.
C11_TelemetryIsPartial ==
  \A r \in Runs :
    \A i \in 1..Len(run[r].telemetry) :
      run[r].telemetry[i].isPartial = run[r].partial

\* The connect request of the last connection change has failed: the
\* worker has answered every request, and is not bound to the connection
\* string the controller has stored.
ConnectFailed ==
  /\ requests = <<>>
  /\ connectionString # Undefined
  /\ workerConnection # connectionString

\* C12: a run command invoked after the worker's connect request has
\* failed ends as a run without connection: it resolves false with the
\* 'Please connect' error message and sends no executeAll.
C12_FailedConnectNoConnection ==
  [][\A r \in Runs :
       (ConnectFailed /\ ~run[r].evaluated /\ run'[r].evaluated) =>
         /\ run'[r].pc = "done"
         /\ run'[r].ret = "false"
         /\ "connect" \in run'[r].messages
         /\ run'[r].exec = "none"]_vars

\* C13: a run that was accepted (its executeAll sent) and has ended has
\* cleared the output channel exactly once, whether it ended with a
\* result, with no result or by cancellation.
C13_ClearedOnce ==
  \A r \in Runs :
    (run[r].exec # "none" /\ run[r].pc = "done") => run[r].clears = 1

\* C14: every invocation of evaluatePlayground resolves with a boolean
\* once its prompt is answered and its executeAll is answered, rejected
\* or cancelled: an invocation that has not resolved is waiting for the
\* answer to its open prompt or for the outcome of its executeAll, and
\* is never left with nothing to wait for.
C14_Resolves ==
  \A r \in Runs :
    run[r].evaluated =>
      \/ run[r].pc = "done" /\ run[r].ret \in {"true", "false"}
      \/ run[r].pc = "confirm" /\ run[r].prompt = "open"
      \/ run[r].pc = "running" /\ run[r].exec = "sent" /\ ~run[r].cancelled

\* C15: executeAll is sent only in a step that finds a connection string
\* stored; a run whose prompt is answered while none is stored (the
\* connection was unbound after the run's first check) sends no
\* executeAll.
C15_BindingReadAtDispatch ==
  [][\A r \in Runs :
       /\ (run[r].exec = "none" /\ run'[r].exec = "sent")
            => connectionString # Undefined
       /\ (run[r].pc = "confirm" /\ run'[r].pc # "confirm"
           /\ connectionString = Undefined)
            => run'[r].exec = "none"]_vars

\* A run passed its first check, and its prompt was answered 'Yes' after
\* the connection had been unbound: it has sent no executeAll.
C15_Witness ==
  \E r \in Runs :
    /\ run[r].bound /\ run[r].prompt = "Yes"
    /\ connectionString = Undefined
    /\ run[r].exec = "none"

\* C16: the code a run hands to executeAll is the text its command
\* resolved when the run was triggered (the whole document or the
\* selection), also when another run command was invoked while the run
\* was waiting for its prompt.
C16_CodeFixedAtTrigger ==
  \A r \in Runs : run[r].exec # "none" => run[r].code = run[r].text

\* C17: the prompt of a run names the connection that is active, and
\* whose connection string is stored, when the prompt opens; and when the
\* prompt is answered 'Yes' and executeAll is sent, that same connection
\* is still the active one and the one whose connection string is stored.
C17_PromptNamesTarget ==
  [][\A r \in Runs :
       /\ (run[r].prompt = "none" /\ run'[r].prompt = "open") =>
            /\ run'[r].promptName = GetActiveConnectionName(activeConnection)
            /\ activeConnection \in Conns
            /\ connectionString = DriverUrlWithSsh(activeConnection)
       /\ (run[r].prompt = "open" /\ run'[r].exec = "sent") =>
            /\ run[r].promptName = GetActiveConnectionName(activeConnection)
            /\ activeConnection \in Conns
            /\ connectionString = DriverUrlWithSsh(activeConnection)]_vars

\* C18: the step that handles a connection change leaves the binding in
\* line with the active connection.  With a connection active, the last
\* request sent to the worker is a connect with that connection's string,
\* its driver options ('{}' when it has none) and the extension path, and
\* that string and those options are stored.  With none active, no
\* connect is sent and nothing is stored; and once the worker has
\* answered every request it is disconnected.
C18_BindingMatchesActive ==
  [][/\ Len(requests') > Len(requests) =>
          LET last == requests'[Len(requests')]
              options == IF DriverOptions(activeConnection') = Undefined
                           THEN "{}" ELSE DriverOptions(activeConnection')
          IN  IF activeConnection' \in Conns
                THEN /\ last.op = "connect"
                     /\ last.connectionString =
                          DriverUrlWithSsh(activeConnection')
                     /\ last.connectionOptions = options
                     /\ last.extensionPath = ExtensionPath
                     /\ connectionString' = DriverUrlWithSsh(activeConnection')
                     /\ connectionOptions' = options
                ELSE /\ \A i \in (Len(requests) + 1)..Len(requests') :
                          requests'[i].op = "disconnect"
                     /\ connectionString' = Undefined
                     /\ connectionOptions' = Undefined
     /\ (activeConnection' = Undefined /\ requests' = <<>>)
          => workerConnection' = Undefined]_vars

\* Connection B, which has no driver options, was made active after A
\* and the worker is connected to it.
C18_Witness ==
  /\ activeConnection = "B"
  /\ connectionString = DriverUrlWithSsh("B")
  /\ connectionOptions = "{}"
  /\ workerConnection = DriverUrlWithSsh("B")
  /\ \E r \in Runs : run[r].promptName = "A"

\* C19: once the selection handler has run, the code lens is at column 0
\* of the start line of the first range, in an order of the ranges
\* ascending by start line, iff the trimmed text of the last range of
\* that order is not empty and is at least as long as the trimmed text of
\* the line the range ends on; otherwise there is no code lens.
C19_Affordance ==
  selectedText # None =>
    \E order \in Orders(selections) :
      /\ AscendingStartLines(order)
      /\ LET last == order[Len(order)]
             text == Trim(DocumentGetText(last))
             line == Trim(LineAt(last.end.line))
             first == [line |-> order[1].start.line, character |-> 0]
         IN  IF Len(text) > 0 /\ Len(text) >= Len(line)
               THEN codeLens = Some([start |-> first, end |-> first])
               ELSE codeLens = None

\* Two ranges were made bottom line first, the lower one covers its
\* line's text, and the code lens is on the line of the upper one.
C19_Witness ==
  /\ selectedText # None
  /\ Len(selections) = 2
  /\ selections[1].start.line > selections[2].start.line
  /\ codeLens # None
  /\ codeLens[1].start.line = selections[2].start.line

\* C20: with a single empty range as the playground's selection,
\* runSelectedPlaygroundBlocks only shows the 'select one or more lines'
\* message: it opens no prompt, sends no executeAll and no telemetry
\* record and leaves the output channel and the stored run request alone,
\* then and later; and runAllOrSelectedPlaygroundBlocks enters
\* evaluatePlayground with the whole document as code and isPartial
\* false, which is also the code it sends when it dispatches at once.
C20_EmptySelection ==
  [][\A r \in Runs :
       /\ (/\ run[r].pc = "unused" /\ run'[r].pc # "unused"
           /\ activeTextEditor = "mongodb"
           /\ Len(selections) = 1
           /\ selections[1].start = selections[1].end) =>
            /\ command' = "runSelected" =>
                 /\ run'[r].messages = {"select"}
                 /\ run'[r].pc = "done"
                 /\ ~run'[r].evaluated
                 /\ run'[r].prompt = "none"
                 /\ run'[r].exec = "none"
                 /\ run'[r].telemetry = <<>>
                 /\ run'[r].clears = 0 /\ run'[r].appends = 0
                 /\ outputChannel' = outputChannel
                 /\ codeToEvaluate' = codeToEvaluate
                 /\ isPartialRun' = isPartialRun
            /\ command' = "runAllOrSelected" =>
                 /\ run'[r].evaluated
                 /\ run'[r].messages = {}
                 /\ run'[r].partial = FALSE
                 /\ run'[r].text = DocumentGetAllText
                 /\ isPartialRun' = FALSE
                 /\ codeToEvaluate' = DocumentGetAllText
                 /\ run'[r].exec = "sent" => run'[r].code = DocumentGetAllText
       /\ run[r].messages = {"select"} => run'[r] = run[r]]_vars

\* After a run on a selection, with a lone cursor left in the playground,
\* runSelectedPlaygroundBlocks has answered with the message and
\* runAllOrSelectedPlaygroundBlocks has sent the whole document.
C20_Witness ==
  /\ selectedText = Some(<<>>)
  /\ Len(selections) = 1 /\ selections[1].start = selections[1].end
  /\ run[1].messages = {"select"}
  /\ command = "runAllOrSelected"
  /\ run[2].exec = "sent" /\ run[2].code = DocumentGetAllText
  /\ ~run[2].partial

\* C21: once deactivate has been called, a connection change makes the
\* controller send no connect or disconnect request to the worker and
\* leaves the stored connection string and options as they are.
C21_TeardownUnsubscribes ==
  [][deactivated =>
       /\ Len(requests') <= Len(requests)
       /\ connectionString' = connectionString
       /\ connectionOptions' = connectionOptions]_vars

\* C22: a run that runSelectedPlaygroundBlocks hands to evaluatePlayground
\* has isPartial true and, as its code, the texts of the ranges now
\* selected in the playground, joined by a newline in an order ascending
\* by start line; never the code or the flag of an earlier run.
C22_RunSelectedUsesSelection ==
  [][\A r \in Runs :
       (/\ run[r].pc = "unused"
        /\ run'[r].evaluated
        /\ command' = "runSelected") =>
         /\ run'[r].partial = TRUE
         /\ \E order \in Orders(selections) :
              /\ AscendingStartLines(order)
              /\ run'[r].text =
                   JoinNewline([i \in 1..Len(order) |->
                                  DocumentGetText(order[i])])
         /\ run'[r].exec = "sent" => run'[r].code = run'[r].text]_vars

\* C23: the step in which the worker answers the executeAll of a run that
\* was cancelled leaves the output channel as it is, also when a later
\* run has rendered into it, and leaves the run resolved as it was: the
\* same outcome, no further clear or appendLine, no message.
C23_LateAnswerInvisible ==
  [][\A r \in Runs :
       (/\ run[r].cancelled
        /\ run[r].exec = "sent"
        /\ run'[r].exec \in {"returned", "rejected"}) =>
         /\ outputChannel' = outputChannel
         /\ run'[r].pc = "done" /\ run[r].pc = "done"
         /\ run'[r].ret = "false" /\ run[r].ret = "false"
         /\ run'[r].clears = run[r].clears
         /\ run'[r].appends = run[r].appends
         /\ run'[r].messages = run[r].messages
         /\ \A q \in Runs : q # r => run'[q] = run[q]]_vars

\* The worker answered a cancelled run with no records, and the lines a
\* later run rendered are in the output channel.
C23_Witness ==
  /\ run[1].cancelled /\ run[1].exec = "returned"
  /\ run[1].result = Some(<<>>) /\ run[1].ret = "false"
  /\ run[2].ret = "true" /\ run[2].result = Some(<<"2", "1">>)
  /\ outputChannel = <<"2", "1">>

\* C24: the step in which the executeAll of a run that was not cancelled
\* rejects ends the run as one without result: it clears the output
\* channel once, appends nothing, resolves false and shows no message,
\* and the run has sent no telemetry record.
C24_RejectionIsNoResult ==
  [][\A r \in Runs :
       (/\ run[r].exec = "sent" /\ ~run[r].cancelled
        /\ run'[r].exec = "rejected") =>
         /\ run'[r].pc = "done"
         /\ run'[r].ret = "false"
         /\ outputChannel' = <<>>
         /\ run'[r].clears = run[r].clears + 1
         /\ run'[r].appends = run[r].appends
         /\ run'[r].telemetry = <<>>
         /\ run'[r].messages = {}]_vars

\* The executeAll of a run rejected over the lines of an earlier run, and
\* the output channel is empty.
C24_Witness ==
  /\ run[1].ret = "true" /\ run[1].result = Some(<<"2", "1">>)
  /\ run[2].exec = "rejected" /\ ~run[2].cancelled
  /\ run[2].ret = "false" /\ run[2].telemetry = <<>>
  /\ outputChannel = <<>>

====
